---- MODULE Spec2Model ----
(***************************************************************************)
(* Model of scripts/generate-release-notes.py: one invocation of           *)
(* generate_release_notes() builds a chat-completion request from the      *)
(* process environment, POSTs it, checks the status, extracts              *)
(* choices[0].message.content and writes it to release_notes.md; any       *)
(* exception is printed and turned into exit status 1.                     *)
(*                                                                         *)
(* Abstractions: a text is a sequence of characters over Alphabet; the     *)
(* file is observed as the text a text-mode read would return; an f-string *)
(* is the sequence of its literal and interpolated segments; a JSON object *)
(* is a record carrying the set of keys it has.                            *)
(***************************************************************************)
EXTENDS FiniteSets, Integers, Sequences, TLC

VARIABLES pc, env, request, response, content, file, file0, error,
          exit_code, effects, run, streak

vars == <<pc, env, request, response, content, file, file0, error,
          exit_code, effects, run, streak>>

(* ----------------------------- bounds ---------------------------------- *)
MaxLen == 1        \* longest text of a response content / of the file at start
MaxRuns == 2       \* invocations of the script in one behaviour

Alphabet == {"a", "b"}

RECURSIVE TextsOfLen(_)
TextsOfLen(n) ==
    IF n = 0 THEN {<<>>}
    ELSE {Append(s, c) : s \in TextsOfLen(n - 1), c \in Alphabet}

Texts == UNION {TextsOfLen(n) : n \in 0..MaxLen}

Prefixes(s) == {SubSeq(s, 1, n) : n \in 0..Len(s)}

(* ------------------------- process environment ------------------------- *)
RequiredVars == {"COMMITS", "GITHUB_REPOSITORY", "DOCKERLIKE_RELEASE_NAME",
                 "NEW_VERSION", "OPENROUTER_API_KEY"}
OptionalVars == {"SITE_URL", "SITE_NAME"}
EnvVars == RequiredVars \cup OptionalVars

\* Python values met by the script: a str or None; a lookup that raises
\* yields the exception in place of a value.
PyNone == [t |-> "None", v |-> ""]
PyStr(s) == [t |-> "str", v |-> s]
PyKeyError == [t |-> "KeyError", v |-> ""]

\* the values the variables have when they are set: one assignment with a
\* different text for each variable, one where every variable is set but empty
ValueOf == [k \in EnvVars |->
              CASE k = "COMMITS" -> "fix: login"
                [] k = "GITHUB_REPOSITORY" -> "posthoot/backend"
                [] k = "DOCKERLIKE_RELEASE_NAME" -> "brave-otter"
                [] k = "NEW_VERSION" -> "1.2.3"
                [] k = "OPENROUTER_API_KEY" -> "sk-key"
                [] k = "SITE_URL" -> "https://posthoot.com"
                [] k = "SITE_NAME" -> "Posthoot"]

EmptyValueOf == [k \in EnvVars |-> ""]

\* an environment: the set of variables that are set, with their values
Envs == {[set |-> S, val |-> V] : S \in SUBSET EnvVars, V \in {ValueOf, EmptyValueOf}}

\* os.environ[key]: raises KeyError for a variable that is not set
environ_index(e, key, default) ==
    IF key \in e.set THEN PyStr(e.val[key]) ELSE PyKeyError

\* os.environ.get(key, default): the default for a variable that is not set
environ_get(e, key, default) ==
    IF key \in e.set THEN PyStr(e.val[key]) ELSE default

\* some lookup made while building the request raised
LookupRaises(e) ==
    \E k \in EnvVars : environ_get(e, k, PyNone).t = "KeyError"

\* the text an f-string replacement field {x} produces: str(x)
format(x) == IF x.t = "None" THEN "None" ELSE x.v

(* ------------------------------ request -------------------------------- *)
Model == "meta-llama/llama-4-maverick"
Url == "https://openrouter.ai/api/v1/chat/completions"
SystemPrompt == "You are a helpful assistant that generates user-friendly release notes for Posthoot, ... Only return the formatted release notes, no other text."

\* the commit history and the repository exchanged
UserContentSwapped(e) ==
    << "Generate detailed release notes with the following information:\n\nCommit History: ",
       format(environ_get(e, "GITHUB_REPOSITORY", PyNone)),
       "\nRepository: ",
       format(environ_get(e, "COMMITS", PyNone)),
       "\nRelease Name: ",
       format(environ_get(e, "DOCKERLIKE_RELEASE_NAME", PyNone)),
       "\nVersion: ",
       format(environ_get(e, "NEW_VERSION", PyNone)),
       "\n\nPlease analyze the commits and generate comprehensive release notes following the system guidelines." >>

\* line 34: the f-string of the user message, segment by segment
UserContent(e) ==
    << "Generate detailed release notes with the following information:\n\nCommit History: ",
       format(environ_get(e, "COMMITS", PyNone)),
       "\nRepository: ",
       format(environ_get(e, "GITHUB_REPOSITORY", PyNone)),
       "\nRelease Name: ",
       format(environ_get(e, "DOCKERLIKE_RELEASE_NAME", PyNone)),
       "\nVersion: ",
       format(environ_get(e, "NEW_VERSION", PyNone)),
       "\n\nPlease analyze the commits and generate comprehensive release notes following the system guidelines." >>

Data(e) ==
    [model |-> Model,
     messages |-> << [role |-> "system", content |-> <<SystemPrompt>>],
                     [role |-> "user", content |-> UserContent(e)] >>]

\* the optional headers left out when their variable is not set
HeadersOmitted(e) ==
    [h \in {"Authorization", "Content-Type"}
          \cup (IF "SITE_URL" \in e.set THEN {"HTTP-Referer"} ELSE {})
          \cup (IF "SITE_NAME" \in e.set THEN {"X-Title"} ELSE {}) |->
       CASE h = "Authorization" ->
              <<"Bearer ", format(environ_get(e, "OPENROUTER_API_KEY", PyNone))>>
         [] h = "Content-Type" -> <<"application/json">>
         [] h = "HTTP-Referer" -> <<format(environ_get(e, "SITE_URL", PyStr("")))>>
         [] h = "X-Title" -> <<format(environ_get(e, "SITE_NAME", PyStr("")))>>]

\* lines 41-46
Headers(e) ==
    ("Authorization" :> <<"Bearer ", format(environ_get(e, "OPENROUTER_API_KEY", PyNone))>>)
    @@ ("Content-Type" :> <<"application/json">>)
    @@ ("HTTP-Referer" :> <<format(environ_get(e, "SITE_URL", PyStr("")))>>)
    @@ ("X-Title" :> <<format(environ_get(e, "SITE_NAME", PyStr("")))>>)

NoRequest == [sent |-> FALSE, url |-> "", headers |-> <<>>, data |-> <<>>]

(* ------------------------------ response ------------------------------- *)
Statuses == {200, 304, 404, 503}

\* JSON values at choices[0].message.content
JStr(s) == [t |-> "str", v |-> s]
JNull == [t |-> "null", v |-> <<>>]
JNum == [t |-> "num", v |-> <<>>]
Contents == {JStr(s) : s \in Texts} \cup {JNull, JNum}

Messages == {[keys |-> {"role"}, content |-> JNull]}
            \cup {[keys |-> {"role", "content"}, content |-> c] : c \in Contents}

ChoiceElems == {[keys |-> {"index"}, message |-> [keys |-> {"role"}, content |-> JNull]]}
               \cup {[keys |-> {"index", "message"}, message |-> m] : m \in Messages}

AltChoice == [keys |-> {"index", "message"},
              message |-> [keys |-> {"role", "content"}, content |-> JStr(<<"b">>)]]

ChoiceLists == {<<>>} \cup {<<c>> : c \in ChoiceElems}
               \cup {<<c, AltChoice>> : c \in ChoiceElems}

Bodies == {[json |-> FALSE, keys |-> {}, choices |-> <<>>],
           [json |-> TRUE, keys |-> {"error"}, choices |-> <<>>]}
          \cup {[json |-> TRUE, keys |-> {"id", "choices"}, choices |-> l] : l \in ChoiceLists}

NoResponse == [received |-> FALSE, status_code |-> 0,
               body |-> [json |-> FALSE, keys |-> {}, choices |-> <<>>]]

\* a status check that only rejects server errors
raise_for_status_5xx(status_code) == 500 <= status_code /\ status_code < 600

\* a status check that never raises
raise_for_status_never(status_code) == FALSE

\* response.raise_for_status(): TRUE when it raises HTTPError
raise_for_status(status_code) == 400 <= status_code /\ status_code < 600

\* message.get("content", "") in place of message["content"]
ExtractLenient(body) ==
    IF ~body.json THEN [exc |-> "JSONDecodeError", value |-> JNull]
    ELSE IF "choices" \notin body.keys THEN [exc |-> "KeyError", value |-> JNull]
    ELSE IF Len(body.choices) = 0 THEN [exc |-> "IndexError", value |-> JNull]
    ELSE IF "message" \notin body.choices[1].keys THEN [exc |-> "KeyError", value |-> JNull]
    ELSE IF "content" \notin body.choices[1].message.keys THEN [exc |-> "None", value |-> JStr(<<>>)]
    ELSE [exc |-> "None", value |-> body.choices[1].message.content]

\* response.json()["choices"][0]["message"]["content"]: the exception raised,
\* or "None" and the value
Extract(body) ==
    IF ~body.json THEN [exc |-> "JSONDecodeError", value |-> JNull]
    ELSE IF "choices" \notin body.keys THEN [exc |-> "KeyError", value |-> JNull]
    ELSE IF Len(body.choices) = 0 THEN [exc |-> "IndexError", value |-> JNull]
    ELSE IF "message" \notin body.choices[1].keys THEN [exc |-> "KeyError", value |-> JNull]
    ELSE IF "content" \notin body.choices[1].message.keys THEN [exc |-> "KeyError", value |-> JNull]
    ELSE [exc |-> "None", value |-> body.choices[1].message.content]

(* -------------------------------- file --------------------------------- *)
NoFile == [exists |-> FALSE, text |-> <<>>]
FileOf(s) == [exists |-> TRUE, text |-> s]
Files == {NoFile} \cup {FileOf(s) : s \in Texts}

\* open in mode "a": the text already there is kept
OpenA(f) == FileOf(f.text)

\* open("release_notes.md", "w") succeeding: created or truncated
OpenW(f) == FileOf(<<>>)

\* f.write(s + "\n")
WriteTextNewline(f, s) == FileOf(f.text \o s \o <<"\n">>)

\* f.write(s) followed by the close of the with block, both succeeding
WriteText(f, s) == FileOf(f.text \o s)

\* f.write(str(x)) accepts every value
WriteRaisesNever(x) == FALSE

\* f.write(x) raises TypeError unless x is a str
WriteRaises(x) == x.t # "str"

\* exit(1) in the handler
ErrorExitCode == 1

NoContent == JNull

(* ------------------------------ actions -------------------------------- *)
Init ==
    /\ pc = "build"
    /\ env \in Envs
    /\ file \in Files
    /\ file0 = file
    /\ request = NoRequest
    /\ response = NoResponse
    /\ content = NoContent
    /\ error = "None"
    /\ exit_code = -1
    /\ effects = <<>>
    /\ run = 1
    /\ streak = 0

\* lines 7-48: build data and call requests.post; the call either raises
\* (connection failure) or returns a response
Post ==
    /\ pc = "build"
    /\ IF LookupRaises(env)
       THEN /\ error' = "KeyError"
            /\ pc' = "except"
            /\ UNCHANGED <<request, response, effects>>
       ELSE /\ request' = [sent |-> TRUE, url |-> Url, headers |-> Headers(env),
                           data |-> Data(env)]
            /\ effects' = Append(effects, "POST")
            /\ \/ /\ error' = "ConnectionError"
                  /\ pc' = "except"
                  /\ UNCHANGED response
               \/ /\ \E s \in Statuses, b \in Bodies :
                        response' = [received |-> TRUE, status_code |-> s, body |-> b]
                  /\ pc' = "raise_for_status"
                  /\ UNCHANGED error
    /\ UNCHANGED <<env, content, file, file0, exit_code, run, streak>>

\* line 50
RaiseForStatus ==
    /\ pc = "raise_for_status"
    /\ IF raise_for_status(response.status_code)
       THEN error' = "HTTPError" /\ pc' = "except"
       ELSE error' = error /\ pc' = "json"
    /\ UNCHANGED <<env, request, response, content, file, file0, exit_code,
                   effects, run, streak>>

\* line 51
ExtractContent ==
    /\ pc = "json"
    /\ LET r == Extract(response.body) IN
         IF r.exc # "None"
         THEN error' = r.exc /\ pc' = "except" /\ UNCHANGED content
         ELSE content' = r.value /\ pc' = "open" /\ UNCHANGED error
    /\ UNCHANGED <<env, request, response, file, file0, exit_code, effects,
                   run, streak>>

\* line 53: open for writing; fails (OSError) without touching the file, or
\* creates/truncates it
Open ==
    /\ pc = "open"
    /\ effects' = Append(effects, "OPEN")
    /\ \/ /\ error' = "OSError"
          /\ pc' = "except"
          /\ UNCHANGED file
       \/ /\ file' = OpenW(file)
          /\ pc' = "write"
          /\ UNCHANGED error
    /\ UNCHANGED <<env, request, response, content, file0, exit_code, run, streak>>

\* line 54 and the close at the end of the with block: f.write raises
\* TypeError for a non-str argument; otherwise the text is written, or the
\* write/flush fails (OSError, UnicodeEncodeError) leaving some prefix of it
Write ==
    /\ pc = "write"
    /\ effects' = Append(effects, "WRITE")
    /\ IF WriteRaises(content)
       THEN error' = "TypeError" /\ pc' = "except" /\ UNCHANGED file
       ELSE \/ /\ file' = WriteText(file, content.v)
               /\ pc' = "return"
               /\ UNCHANGED error
            \/ /\ \E p \in Prefixes(content.v) : file' = WriteText(file, p)
               /\ error' = "OSError"
               /\ pc' = "except"
    /\ UNCHANGED <<env, request, response, content, file0, exit_code, run, streak>>

\* lines 56-58: print the error, exit(1)
Except ==
    /\ pc = "except"
    /\ exit_code' = ErrorExitCode
    /\ pc' = "exited"
    /\ effects' = Append(effects, "EXIT")
    /\ streak' = 0
    /\ UNCHANGED <<env, request, response, content, file, file0, error, run>>

\* the function returns and the interpreter ends with status 0
Return ==
    /\ pc = "return"
    /\ exit_code' = 0
    /\ pc' = "exited"
    /\ effects' = Append(effects, "EXIT")
    /\ streak' = streak + 1
    /\ UNCHANGED <<env, request, response, content, file, file0, error, run>>

\* the pipeline invokes the script again, in the same working directory and
\* environment (a run under another environment starts like an initial
\* state: Init leaves the file arbitrary)
Rerun ==
    /\ pc = "exited"
    /\ run < MaxRuns
    /\ run' = run + 1
    /\ pc' = "build"
    /\ env' = env
    /\ file0' = file
    /\ request' = NoRequest
    /\ response' = NoResponse
    /\ content' = NoContent
    /\ error' = "None"
    /\ exit_code' = -1
    /\ effects' = <<>>
    /\ UNCHANGED <<file, streak>>

Next ==
    \/ Post
    \/ RaiseForStatus
    \/ ExtractContent
    \/ Open
    \/ Write
    \/ Except
    \/ Return
    \/ Rerun

Spec == Init /\ [][Next]_vars

TypeOK ==
    /\ pc \in {"build", "raise_for_status", "json", "open", "write",
               "except", "return", "exited"}
    /\ env \in Envs
    /\ exit_code \in {-1, 0, 1}
    /\ run \in 1..MaxRuns

(* ------------------------- vocabulary of the claims -------------------- *)
Exited == pc = "exited"

\* a status the status check lets through (what requests calls response.ok):
\* anything but a 4xx or 5xx error status
SuccessStatus(s) == s \notin 400..599

\* the body is JSON with a value at choices[0].message.content
HasContent(b) ==
    /\ b.json
    /\ "choices" \in b.keys
    /\ Len(b.choices) >= 1
    /\ "message" \in b.choices[1].keys
    /\ "content" \in b.choices[1].message.keys

\* ... and that value is a string
StringContent(b) == HasContent(b) /\ b.choices[1].message.content.t = "str"

ContentOf(b) == b.choices[1].message.content.v

\* opening or writing release_notes.md failed
FileFailed == error = "OSError"

\* some step of the run failed
StepFailed ==
    \/ ~response.received
    \/ ~SuccessStatus(response.status_code)
    \/ ~response.body.json
    \/ "choices" \notin response.body.keys
    \/ response.body.choices = <<>>
    \/ "message" \notin response.body.choices[1].keys
    \/ "content" \notin response.body.choices[1].message.keys
    \/ response.body.choices[1].message.content.t # "str"
    \/ FileFailed

\* what a variable contributes to the request: its value, or the text None
Rendered(k) == IF k \in env.set THEN env.val[k] ELSE "None"

Range(s) == {s[i] : i \in 1..Len(s)}
IsPrefix(p, s) == Len(p) <= Len(s) /\ SubSeq(s, 1, Len(p)) = p

EffectOrders == { <<"POST", "EXIT">>,
                  <<"POST", "OPEN", "EXIT">>,
                  <<"POST", "OPEN", "WRITE", "EXIT">> }

(* -------------------------------- claims ------------------------------- *)

C4_LastWriteWins ==
    (Exited /\ exit_code = 0)
    => /\ file.exists
       /\ content.t = "str"
       /\ file.text = content.v
       /\ content.v = ContentOf(response.body)

C4_Witness ==
    /\ Exited /\ run = 2 /\ streak = 2
    /\ file0.exists
    /\ Len(file0.text) > Len(content.v)
    /\ file = FileOf(content.v)

\* C5: the posted body has the fixed model, the messages system then user,
\* the fixed system text, and a user text whose four slots hold COMMITS,
\* GITHUB_REPOSITORY, DOCKERLIKE_RELEASE_NAME and NEW_VERSION after their
\* labels.
C5_RequestBody ==
    request.sent =>
      LET d == request.data
          u == request.data.messages[2].content
      IN /\ d.model = "meta-llama/llama-4-maverick"
         /\ Len(d.messages) = 2
         /\ d.messages[1].role = "system"
         /\ d.messages[2].role = "user"
         /\ d.messages[1].content = <<SystemPrompt>>
         /\ Len(u) = 9
         /\ u[1] = "Generate detailed release notes with the following information:\n\nCommit History: "
         /\ u[2] = Rendered("COMMITS")
         /\ u[3] = "\nRepository: "
         /\ u[4] = Rendered("GITHUB_REPOSITORY")
         /\ u[5] = "\nRelease Name: "
         /\ u[6] = Rendered("DOCKERLIKE_RELEASE_NAME")
         /\ u[7] = "\nVersion: "
         /\ u[8] = Rendered("NEW_VERSION")
         /\ u[9] = "\n\nPlease analyze the commits and generate comprehensive release notes following the system guidelines."

C5_Witness ==
    /\ request.sent
    /\ {"COMMITS", "GITHUB_REPOSITORY", "DOCKERLIKE_RELEASE_NAME", "NEW_VERSION"}
         \subseteq env.set
    /\ request.data.messages[2].content[2] = "fix: login"
    /\ request.data.messages[2].content[4] = "posthoot/backend"

\* C6: whatever required variables are absent, the first thing the run does
\* is the POST, and each absent one appears as the text None in its slot of
\* the user message or after "Bearer " in the Authorization header.
C6_AbsentStillPosts ==
    pc # "build" =>
      /\ request.sent
      /\ effects # <<>> /\ effects[1] = "POST"
      /\ "COMMITS" \notin env.set => request.data.messages[2].content[2] = "None"
      /\ "GITHUB_REPOSITORY" \notin env.set => request.data.messages[2].content[4] = "None"
      /\ "DOCKERLIKE_RELEASE_NAME" \notin env.set => request.data.messages[2].content[6] = "None"
      /\ "NEW_VERSION" \notin env.set => request.data.messages[2].content[8] = "None"
      /\ "OPENROUTER_API_KEY" \notin env.set
            => request.headers["Authorization"] = <<"Bearer ", "None">>

C6_Witness ==
    /\ env.set \cap RequiredVars = {}
    /\ request.sent
    /\ response.received
    /\ request.headers["Authorization"] = <<"Bearer ", "None">>

\* C7: the request has exactly the headers Authorization, Content-Type,
\* HTTP-Referer and X-Title; HTTP-Referer is SITE_URL's value, or the empty
\* string when SITE_URL is absent, and X-Title likewise for SITE_NAME.
C7_Headers ==
    request.sent =>
      /\ DOMAIN request.headers
           = {"Authorization", "Content-Type", "HTTP-Referer", "X-Title"}
      /\ request.headers["HTTP-Referer"]
           = <<IF "SITE_URL" \in env.set THEN env.val["SITE_URL"] ELSE "">>
      /\ request.headers["X-Title"]
           = <<IF "SITE_NAME" \in env.set THEN env.val["SITE_NAME"] ELSE "">>
      /\ request.headers["Content-Type"] = <<"application/json">>

C7_Witness ==
    /\ request.sent
    /\ "SITE_URL" \notin env.set /\ "SITE_NAME" \in env.set
    /\ env.val = ValueOf
    /\ request.headers["HTTP-Referer"] = <<"">>
    /\ request.headers["X-Title"] = <<"Posthoot">>

C9_NoPartialState ==
    (Exited /\ exit_code = 1) => file = file0

\* C10: the effects of a run are one POST, then at most one open and one
\* write of release_notes.md, then the exit; the file is opened, and differs
\* from what it was, only after a response passed the status check and the
\* extraction of choices[0].message.content.
C10_EffectOrder ==
    /\ \E s \in EffectOrders : IsPrefix(effects, s)
    /\ Exited => effects \in EffectOrders
    /\ "OPEN" \in Range(effects)
         => /\ response.received
            /\ SuccessStatus(response.status_code)
            /\ HasContent(response.body)
    /\ file # file0 => "OPEN" \in Range(effects)

C10_Witness ==
    /\ Exited
    /\ ~response.received
    /\ error = "ConnectionError"
    /\ effects = <<"POST", "EXIT">>
    /\ file = file0

====
